---- MODULE Spec2Model ----
(***************************************************************************)
(* Model of the clock widget's core: TimeModel (js/models/TimeModel.js)    *)
(* and AlarmModel (js/models/AlarmModel.js).                               *)
(*                                                                         *)
(* Time is in milliseconds.  The system clock `now` counts milliseconds    *)
(* from a local midnight, so the local calendar fields of an instant t are *)
(* those of t modulo one day.  Strings the code inspects character by      *)
(* character (alarm times, padded renderings) are sequences of one-        *)
(* character strings: "07:30" is <<"0","7",":","3","0">>.                  *)
(***************************************************************************)
EXTENDS Integers, Sequences, FiniteSets, TLC

VARIABLES
  now,               \* Date.now(): the system clock, ms
  timezone,          \* TimeModel.timezone
  format24,          \* TimeModel.format24
  lastSyncTime,      \* TimeModel.lastSyncTime
  driftCorrection,   \* TimeModel.driftCorrection
  callback,          \* TimeModel.callback
  animationFrameId,  \* TimeModel.animationFrameId
  timers,            \* pending setTimeout callbacks: sequence of due times
  activeAlarm,       \* AlarmModel.activeAlarm
  isPlaying,         \* AlarmModel.isPlaying
  storage,           \* localStorage value under CONFIG.STORAGE_KEYS.ALARMS
  storageOk,         \* FALSE: every localStorage call throws
  emitted,           \* events dispatched by the last step, in order
  lastCall,          \* the last step: operation, argument, outcome
  lastTick,          \* observations of the last tick
  prevShown,         \* last instant produced by the tick before the last one
  fireMinute,        \* shown minute of the last tick on which shouldTrigger held
  fireCount,         \* ticks on which shouldTrigger held within fireMinute
  stopped,           \* stop() was called and start() has not been called since
  undisturbed,       \* so far every timeout expired less than a second late
                     \* and every callback returned at once without throwing
  starts,            \* number of start() calls so far
  ncalls,            \* number of API calls so far
  nticks             \* number of timer expirations so far

vars == <<now, timezone, format24, lastSyncTime, driftCorrection, callback,
          animationFrameId, timers, activeAlarm, isPlaying, storage, storageOk,
          emitted, lastCall, lastTick, prevShown, fireMinute, fireCount,
          stopped, undisturbed, starts, ncalls, nticks>>

clockVars == <<timezone, format24, lastSyncTime, driftCorrection, callback,
               animationFrameId, timers>>
alarmVars == <<activeAlarm, isPlaying, storage>>
tickHist  == <<lastTick, prevShown, fireMinute, fireCount, undisturbed, nticks>>

-----------------------------------------------------------------------------
(* Units and program constants *)

SecondMs     == 1000
SyncInterval == 60000
MinuteMs     == 60 * SecondMs
HourMs       == 60 * MinuteMs
DayMs        == 24 * HourMs

Undefined == "undefined"          \* an unset callback or handle
Null      == [null |-> TRUE]      \* activeAlarm = null
NaN       == -1                   \* Number() of a non-numeric string; equal to no field
None      == -1                   \* no instant, no minute

(* Bounds of the model *)
MaxTicks  == 3
MaxCalls  == 3
MaxStarts == 2

At(h, m, s, ms) == h * HourMs + m * MinuteMs + s * SecondMs + ms

\* instants at which the models are constructed
StartTimes == {At(7, 29, 0, 0), At(7, 28, 58, 500)}
\* time that passes between construction and the first start()
ElapseSteps == {59500}
\* lateness of a timer expiration against its due time
Jitters == {0, 700, 5000}
\* time the onTick callback takes
CallbackDurations == {0, 400}

Max(a, b) == IF a >= b THEN a ELSE b

-----------------------------------------------------------------------------
(* Strings *)

DigitChars == {"0", "1", "2", "3", "4", "5", "6", "7", "8", "9"}
DigitVal == ("0" :> 0) @@ ("1" :> 1) @@ ("2" :> 2) @@ ("3" :> 3) @@ ("4" :> 4) @@
            ("5" :> 5) @@ ("6" :> 6) @@ ("7" :> 7) @@ ("8" :> 8) @@ ("9" :> 9)
DigitChar == <<"0", "1", "2", "3", "4", "5", "6", "7", "8", "9">>

\* String(num) for a non-negative integer
RECURSIVE NumToString(_)
NumToString(n) ==
  IF n < 10 THEN <<DigitChar[n + 1]>>
  ELSE NumToString(n \div 10) \o <<DigitChar[(n % 10) + 1]>>

\* String(num).padStart(2, '0')
PadZero(num) ==
  LET str == NumToString(num)
  IN  IF Len(str) >= 2 THEN str ELSE <<"0">> \o str

\* str.split(':')
RECURSIVE Split(_)
Split(str) ==
  IF \A i \in 1..Len(str) : str[i] # ":" THEN <<str>>
  ELSE LET k == CHOOSE i \in 1..Len(str) :
                  str[i] = ":" /\ \A j \in 1..(i - 1) : str[j] # ":"
       IN  <<SubSeq(str, 1, k - 1)>> \o Split(SubSeq(str, k + 1, Len(str)))

\* Number(str) on strings of digits, ':' and letters: '' is 0, a run of
\* digits is its decimal value, anything else is NaN
RECURSIVE DecimalValue(_)
DecimalValue(str) ==
  IF Len(str) = 0 THEN 0
  ELSE 10 * DecimalValue(SubSeq(str, 1, Len(str) - 1)) + DigitVal[str[Len(str)]]

ToNumber(str) ==
  IF \A i \in 1..Len(str) : str[i] \in DigitChars THEN DecimalValue(str) ELSE NaN

-----------------------------------------------------------------------------
(* TimeModel: getTime *)

Timezones == {"local", "Asia/Tokyo"}

\* wall-clock offset of a zone against the local zone of the runtime, which
\* is taken to be UTC; 'local' uses the Date object's own local fields
ZoneOffset(tz) == IF tz = "local" THEN 0 ELSE 9 * HourMs

\* the 12-hour value without the `|| 12`
To12HourFromZero(hours) == hours % 12

\* the value `hours % 12 || 12`
To12Hour(hours) == IF hours % 12 = 0 THEN 12 ELSE hours % 12

\* getTime() when Date.now() reads t; the calendar fields (dayName,
\* monthName, dayOfMonth, year) are not modelled
GetTimeAt(t, drift, tz, f24) ==
  LET instant == t + drift
      wall    == (instant + ZoneOffset(tz)) % DayMs
      h24     == wall \div HourMs
      minutes == (wall % HourMs) \div MinuteMs
      seconds == (wall % MinuteMs) \div SecondMs
      period  == IF ~f24 /\ h24 >= 12 THEN "PM" ELSE "AM"
      hours   == IF ~f24 THEN To12Hour(h24) ELSE h24
  IN  [hours      |-> PadZero(hours),
       minutes    |-> PadZero(minutes),
       seconds    |-> PadZero(seconds),
       rawHours   |-> hours,
       rawMinutes |-> minutes,
       rawSeconds |-> seconds,
       period     |-> period,
       raw        |-> instant]

GetTime == GetTimeAt(now, driftCorrection, timezone, format24)

\* angles are in tenths of a degree, which every value the formulas of
\* getHandAngles() take on whole seconds is a whole number of
FullTurn == 3600

\* the deviation, in units in the last place, of the double (s / 60) * 360
\* from the real number 6 s
SecondAngleUlps(sec) ==
  IF sec \in {21, 42} THEN 0 - 1 ELSE IF sec \in {31, 33} THEN 1 ELSE 0

\* getHandAngles() on the TimeValue getTime() returned
HandAnglesOf(time) ==
  [second     |-> (time.rawSeconds * FullTurn) \div 60,
   secondUlps |-> SecondAngleUlps(time.rawSeconds),
   minute     |-> (time.rawMinutes * FullTurn) \div 60 + (time.rawSeconds * 60) \div 60,
   hour       |-> (time.rawHours * FullTurn) \div 12 + (time.rawMinutes * 300) \div 60]

GetHandAngles == HandAnglesOf(GetTime)

-----------------------------------------------------------------------------
(* AlarmModel: pure parts *)

\* the pattern with 2[0-4] in place of 2[0-3]
IsValidTimeFormatTo24(time) ==
  /\ Len(time) = 5
  /\ \/ time[1] \in {"0", "1"} /\ time[2] \in DigitChars
     \/ time[1] = "2" /\ time[2] \in {"0", "1", "2", "3", "4"}
  /\ time[3] = ":"
  /\ time[4] \in {"0", "1", "2", "3", "4", "5"}
  /\ time[5] \in DigitChars

\* /^([0-1][0-9]|2[0-3]):[0-5][0-9]$/.test(time)
IsValidTimeFormat(time) ==
  /\ Len(time) = 5
  /\ \/ time[1] \in {"0", "1"} /\ time[2] \in DigitChars
     \/ time[1] = "2" /\ time[2] \in {"0", "1", "2", "3"}
  /\ time[3] = ":"
  /\ time[4] \in {"0", "1", "2", "3", "4", "5"}
  /\ time[5] \in DigitChars

\* shouldTrigger(currentTime) without the rawSeconds test
ShouldTriggerOnWholeMinute(a, currentTime) ==
  IF a = Null \/ ~a.enabled THEN FALSE
  ELSE LET parts        == Split(a.time)
           alarmHours   == ToNumber(parts[1])
           alarmMinutes == IF Len(parts) >= 2 THEN ToNumber(parts[2]) ELSE NaN
       IN  /\ currentTime.rawHours = alarmHours
           /\ currentTime.rawMinutes = alarmMinutes

\* shouldTrigger(currentTime) on the alarm a
ShouldTriggerOn(a, currentTime) ==
  IF a = Null \/ ~a.enabled THEN FALSE
  ELSE LET parts        == Split(a.time)
           alarmHours   == ToNumber(parts[1])
           alarmMinutes == IF Len(parts) >= 2 THEN ToNumber(parts[2]) ELSE NaN
       IN  /\ currentTime.rawHours = alarmHours
           /\ currentTime.rawMinutes = alarmMinutes
           /\ currentTime.rawSeconds = 0

ShouldTrigger(currentTime) == ShouldTriggerOn(activeAlarm, currentTime)

\* values of the storage key: absent, a JSON object text (its members in
\* order), or a text that is not JSON
NoItem      == [kind |-> "absent"]
NotJson     == [kind |-> "garbage"]
JsonText(m) == [kind |-> "object", members |-> m]

\* JSON.stringify(alarm): the object's members in insertion order
JsonStringify(a) ==
  JsonText(<<<<"id", a.id>>, <<"time", a.time>>,
             <<"enabled", a.enabled>>, <<"createdAt", a.createdAt>>>>)

\* JSON.parse(text) of an object text with the four alarm members
JsonParse(text) ==
  LET member(k) == CHOOSE i \in 1..Len(text.members) : text.members[i][1] = k
  IN  [id        |-> text.members[member("id")][2],
       time      |-> text.members[member("time")][2],
       enabled   |-> text.members[member("enabled")][2],
       createdAt |-> text.members[member("createdAt")][2]]

\* new Date().toISOString() at the instant t
ToISOString(t) == <<"iso", t>>

-----------------------------------------------------------------------------
(* AlarmModel: storage *)

\* _loadFromStorage(): the value activeAlarm has after it
LoadFromStorage(item, ok) ==
  IF ~ok THEN Null                       \* getItem throws, caught
  ELSE IF item = NoItem THEN Null        \* getItem returns null
  ELSE IF item = NotJson THEN Null       \* JSON.parse throws, caught
  ELSE JsonParse(item)

\* _saveToStorage() without the removeItem branch
SaveToStorageNoRemove(a, item, ok) ==
  IF ~ok THEN item
  ELSE IF a # Null THEN JsonStringify(a)
  ELSE item

\* _saveToStorage(): the value the key has after it
SaveToStorage(a, item, ok) ==
  IF ~ok THEN item                       \* setItem/removeItem throws, caught
  ELSE IF a # Null THEN JsonStringify(a)
  ELSE NoItem

\* what an earlier session may have left under the key
StoredAlarm(time, enabled) ==
  JsonStringify([id |-> 1, time |-> time, enabled |-> enabled,
                 createdAt |-> ToISOString(1)])

StoredItems ==
  {NoItem, NotJson,
   StoredAlarm(<<"0", "7", ":", "3", "0">>, TRUE),
   StoredAlarm(<<"2", "4", ":", "0", "0">>, TRUE)}

\* time strings passed to setAlarm
AlarmInputs ==
  {<<"0", "7", ":", "3", "0">>, <<"1", "9", ":", "3", "0">>,
   <<"2", "4", ":", "0", "0">>, <<"9", ":", "3", "0">>,
   <<"1", "2", ":", "6", "0">>}

-----------------------------------------------------------------------------
(* Initial state: both models constructed at the same instant *)

NoTick == [at |-> None]
NoCall == [op |-> "new"]

\* both models are constructed at the instant t, the key holding `item`
Construct(t, item, ok) ==
  /\ now = t
  /\ timezone = "local"
  /\ format24 = FALSE
  /\ lastSyncTime = t
  /\ driftCorrection = 0
  /\ callback = Undefined
  /\ animationFrameId = Undefined
  /\ timers = <<>>
  /\ storageOk = ok
  /\ storage = item
  /\ activeAlarm = LoadFromStorage(item, ok)
  /\ isPlaying = FALSE
  /\ emitted = <<>>
  /\ lastCall = NoCall
  /\ lastTick = NoTick
  /\ prevShown = None
  /\ fireMinute = None
  /\ fireCount = 0
  /\ stopped = FALSE
  /\ undisturbed = TRUE
  /\ starts = 0
  /\ ncalls = 0
  /\ nticks = 0

\* an API call is made: it is counted, and it is not a tick
Called(call) ==
  /\ ncalls < MaxCalls
  /\ ncalls' = ncalls + 1
  /\ lastCall' = call

-----------------------------------------------------------------------------
(* TimeModel operations *)

SetTimezone(tz) ==
  /\ Called([op |-> "setTimezone", arg |-> tz])
  /\ timezone' = tz
  /\ emitted' = <<"timezoneChanged">>
  /\ UNCHANGED <<now, format24, lastSyncTime, driftCorrection, callback,
                 animationFrameId, timers, alarmVars, storageOk, tickHist,
                 stopped, starts>>

SetFormat(format) ==
  /\ Called([op |-> "setFormat", arg |-> format])
  /\ format24' = (format = "24h")
  /\ emitted' = <<"formatChanged">>
  /\ UNCHANGED <<now, timezone, lastSyncTime, driftCorrection, callback,
                 animationFrameId, timers, alarmVars, storageOk, tickHist,
                 stopped, starts>>

\* _scheduleNextTick() at Date.now() = t: the due time of the armed timeout
NextDue(t) == t + (SecondMs - (t % SecondMs))

ScheduleNextTick(pending, t) == Append(pending, NextDue(t))

Callbacks == {"onTick"}

Start(cb) ==
  /\ starts < MaxStarts
  /\ Called([op |-> "start", arg |-> cb, ret |-> animationFrameId])
  /\ callback' = cb
  /\ timers' = ScheduleNextTick(timers, now)
  /\ stopped' = FALSE
  /\ starts' = starts + 1
  /\ emitted' = <<>>
  /\ UNCHANGED <<now, timezone, format24, lastSyncTime, driftCorrection,
                 animationFrameId, alarmVars, storageOk, tickHist>>

\* stop(): cancelAnimationFrame(animationFrameId) cancels no timeout
StopHandle(id) == IF id # Undefined THEN "null" ELSE id

Stop ==
  /\ Called([op |-> "stop"])
  /\ animationFrameId' = StopHandle(animationFrameId)
  /\ stopped' = TRUE
  /\ emitted' = <<>>
  /\ UNCHANGED <<now, timezone, format24, lastSyncTime, driftCorrection,
                 callback, timers, alarmVars, storageOk, tickHist, starts>>

\* _correctDrift() with the difference taken the other way round
CorrectDriftForward(t, lastSync, drift) ==
  LET theoreticalTime == lastSync + SyncInterval
  IN  [driftCorrection |-> drift + (t - theoreticalTime), lastSyncTime |-> t]

\* _correctDrift() at Date.now() = t
CorrectDrift(t, lastSync, drift) ==
  LET theoreticalTime == lastSync + SyncInterval
  IN  [driftCorrection |-> drift + (theoreticalTime - t), lastSyncTime |-> t]

\* the first statement of _onTick() with `>=` in place of `>`
SyncDriftAtInterval(t, lastSync, drift) ==
  IF (t - lastSync) >= SyncInterval THEN CorrectDrift(t, lastSync, drift)
  ELSE [driftCorrection |-> drift, lastSyncTime |-> lastSync]

\* the first statement of _onTick() at Date.now() = t
SyncDrift(t, lastSync, drift) ==
  IF (t - lastSync) > SyncInterval THEN CorrectDrift(t, lastSync, drift)
  ELSE [driftCorrection |-> drift, lastSyncTime |-> lastSync]

\* the timeout that expires next: the earliest due, the oldest among equals
NextTimer ==
  CHOOSE i \in 1..Len(timers) :
    /\ \A k \in 1..Len(timers) : timers[i] <= timers[k]
    /\ \A k \in 1..(i - 1) : timers[k] # timers[i]

RemoveAt(seq, i) == SubSeq(seq, 1, i - 1) \o SubSeq(seq, i + 1, Len(seq))

\* the whole seconds strictly between two shown instants on which the
\* alarm would have triggered
SkippedFire(a, from, to, tz, f24) ==
  /\ from # None
  /\ \E sec \in ((from \div SecondMs) + 1)..((to \div SecondMs) - 1) :
       ShouldTriggerOn(a, GetTimeAt(sec * SecondMs, 0, tz, f24))

\* a timeout expires `jitter` ms late and runs () => { _onTick();
\* _scheduleNextTick() }; the callback takes `dur` ms and may throw
Tick(jitter, dur, throws) ==
  /\ timers # <<>>
  /\ nticks < MaxTicks
  /\ LET i      == NextTimer
         t0     == Max(now, timers[i]) + jitter
         sync   == SyncDrift(t0, lastSyncTime, driftCorrection)
         drift  == sync.driftCorrection
         called == callback # Undefined
         threw  == called /\ throws
         tv1    == GetTimeAt(t0, drift, timezone, format24)
         t1     == IF called THEN t0 + dur ELSE t0
         tv2    == GetTimeAt(t1, drift, timezone, format24)
         trig   == ShouldTrigger(tv1)
         minute == tv1.raw \div MinuteMs
         before == IF lastTick = NoTick THEN None ELSE lastTick.shown
     IN  /\ throws => called
         /\ ~called => dur = 0
         /\ driftCorrection' = drift
         /\ lastSyncTime' = sync.lastSyncTime
         /\ now' = t1
         /\ emitted' = IF threw THEN <<>> ELSE <<"tick">>
         /\ timers' = IF threw THEN RemoveAt(timers, i)
                      ELSE ScheduleNextTick(RemoveAt(timers, i), t1)
         /\ lastTick' = [at |-> t0, late |-> t0 - timers[i], called |-> called,
                         threw |-> threw, synced |-> sync.lastSyncTime = t0,
                         lastSyncBefore |-> lastSyncTime,
                         driftBefore |-> driftCorrection,
                         cbTime |-> tv1, evTime |-> tv2,
                         shown |-> IF threw THEN tv1.raw ELSE tv2.raw,
                         trig |-> trig,
                         skipped |-> SkippedFire(activeAlarm, before, tv1.raw,
                                                 timezone, format24)]
         /\ prevShown' = before
         /\ fireMinute' = IF trig THEN minute ELSE fireMinute
         /\ fireCount' = IF ~trig THEN fireCount
                         ELSE IF minute = fireMinute THEN fireCount + 1 ELSE 1
         /\ undisturbed' = (undisturbed /\ t0 - timers[i] < SecondMs /\ t1 = t0 /\ ~threw)
         /\ nticks' = nticks + 1
         /\ lastCall' = [op |-> "tick"]
  /\ UNCHANGED <<timezone, format24, callback, animationFrameId, alarmVars,
                 storageOk, stopped, starts, ncalls>>

\* time passes between construction and the first start()
Elapse(d) ==
  /\ starts = 0
  /\ now = lastSyncTime
  /\ now' = now + d
  /\ emitted' = <<>>
  /\ lastCall' = [op |-> "elapse"]
  /\ UNCHANGED <<clockVars, alarmVars, storageOk, tickHist, stopped, starts,
                 ncalls>>

-----------------------------------------------------------------------------
(* AlarmModel operations *)

\* the ticks counted towards the present alarm start anew when it changes
AlarmChanged ==
  /\ fireMinute' = None
  /\ fireCount' = 0
  /\ UNCHANGED <<lastTick, prevShown, undisturbed, nticks>>

SetAlarm(time, enabled) ==
  /\ IF ~IsValidTimeFormat(time)
     THEN /\ Called([op |-> "setAlarm", arg |-> time, enabled |-> enabled,
                      threw |-> TRUE])
          /\ emitted' = <<>>
          /\ UNCHANGED <<alarmVars, tickHist>>
     ELSE /\ Called([op |-> "setAlarm", arg |-> time, enabled |-> enabled,
                      threw |-> FALSE])
          /\ activeAlarm' = [id |-> now, time |-> time, enabled |-> enabled,
                             createdAt |-> ToISOString(now)]
          /\ storage' = SaveToStorage(activeAlarm', storage, storageOk)
          /\ emitted' = <<"alarmSet">>
          /\ AlarmChanged
          /\ UNCHANGED isPlaying
  /\ UNCHANGED <<now, clockVars, storageOk, stopped, starts>>

\* the controller asks shouldTrigger(currentTime); the model changes nothing
ShouldTriggerCall(currentTime) ==
  /\ Called([op |-> "shouldTrigger", arg |-> currentTime,
             ret |-> ShouldTrigger(currentTime)])
  /\ emitted' = <<>>
  /\ UNCHANGED <<now, clockVars, alarmVars, storageOk, tickHist, stopped, starts>>

\* clearAlarm() that removes the stored value first, outside a try block:
\* a failing store aborts it before the alarm in memory is cleared
ClearAlarmStoreFirst ==
  /\ Called([op |-> "clearAlarm", again |-> lastCall.op = "clearAlarm"])
  /\ IF storageOk
     THEN /\ activeAlarm' = Null
          /\ isPlaying' = FALSE
          /\ storage' = NoItem
          /\ emitted' = <<"alarmCleared">>
          /\ AlarmChanged
     ELSE /\ emitted' = <<>>
          /\ UNCHANGED <<alarmVars, tickHist>>
  /\ UNCHANGED <<now, clockVars, storageOk, stopped, starts>>

\* clearAlarm() that leaves the playing flag as it is
ClearAlarmKeepsPlaying ==
  /\ Called([op |-> "clearAlarm", again |-> lastCall.op = "clearAlarm"])
  /\ activeAlarm' = Null
  /\ storage' = SaveToStorage(Null, storage, storageOk)
  /\ emitted' = <<"alarmCleared">>
  /\ AlarmChanged
  /\ UNCHANGED <<now, clockVars, isPlaying, storageOk, stopped, starts>>

ClearAlarm ==
  /\ Called([op |-> "clearAlarm", again |-> lastCall.op = "clearAlarm"])
  /\ activeAlarm' = Null
  /\ isPlaying' = FALSE
  /\ storage' = SaveToStorage(Null, storage, storageOk)
  /\ emitted' = <<"alarmCleared">>
  /\ AlarmChanged
  /\ UNCHANGED <<now, clockVars, storageOk, stopped, starts>>

\* toggleAlarm() that also ends the playing phase when it disables the alarm
ToggleAlarmSilencing(enabled) ==
  /\ Called([op |-> "toggleAlarm", arg |-> enabled])
  /\ IF activeAlarm # Null
     THEN /\ activeAlarm' = [activeAlarm EXCEPT !.enabled = enabled]
          /\ storage' = SaveToStorage(activeAlarm', storage, storageOk)
          /\ emitted' = <<"alarmToggled">>
          /\ isPlaying' = (isPlaying /\ enabled)
          /\ AlarmChanged
     ELSE /\ emitted' = <<>>
          /\ UNCHANGED <<activeAlarm, isPlaying, storage, tickHist>>
  /\ UNCHANGED <<now, clockVars, storageOk, stopped, starts>>

\* toggleAlarm() that inverts the flag instead of assigning the argument
ToggleAlarmFlip(enabled) ==
  /\ Called([op |-> "toggleAlarm", arg |-> enabled])
  /\ IF activeAlarm # Null
     THEN /\ activeAlarm' = [activeAlarm EXCEPT !.enabled = ~activeAlarm.enabled]
          /\ storage' = SaveToStorage(activeAlarm', storage, storageOk)
          /\ emitted' = <<"alarmToggled">>
          /\ AlarmChanged
     ELSE /\ emitted' = <<>>
          /\ UNCHANGED <<activeAlarm, storage, tickHist>>
  /\ UNCHANGED <<now, clockVars, isPlaying, storageOk, stopped, starts>>

ToggleAlarm(enabled) ==
  /\ Called([op |-> "toggleAlarm", arg |-> enabled])
  /\ IF activeAlarm # Null
     THEN /\ activeAlarm' = [activeAlarm EXCEPT !.enabled = enabled]
          /\ storage' = SaveToStorage(activeAlarm', storage, storageOk)
          /\ emitted' = <<"alarmToggled">>
          /\ AlarmChanged
     ELSE /\ emitted' = <<>>
          /\ UNCHANGED <<activeAlarm, storage, tickHist>>
  /\ UNCHANGED <<now, clockVars, isPlaying, storageOk, stopped, starts>>

GetAlarm ==
  /\ Called([op |-> "getAlarm", ret |-> activeAlarm])
  /\ emitted' = <<>>
  /\ UNCHANGED <<now, clockVars, alarmVars, storageOk, tickHist, stopped, starts>>

SetPlaying(playing) ==
  /\ Called([op |-> "setPlaying", arg |-> playing])
  /\ isPlaying' = playing
  /\ emitted' = <<"alarmPlayingChanged">>
  /\ UNCHANGED <<now, clockVars, activeAlarm, storage, storageOk, tickHist,
                 stopped, starts>>

\* getTime() called by a renderer
GetTimeCall ==
  /\ Called([op |-> "getTime", ret |-> GetTime])
  /\ emitted' = <<>>
  /\ UNCHANGED <<now, clockVars, alarmVars, storageOk, tickHist, stopped, starts>>

\* getHandAngles() called by a renderer
GetHandAnglesCall ==
  /\ Called([op |-> "getHandAngles", time |-> GetTime, ret |-> GetHandAngles])
  /\ emitted' = <<>>
  /\ UNCHANGED <<now, clockVars, alarmVars, storageOk, tickHist, stopped, starts>>

-----------------------------------------------------------------------------
(* The running clock with its alarm *)

\* TimeValues of the instants a controller may pass to shouldTrigger
ProbeInstants == {At(7, 29, 59, 0), At(7, 30, 0, 0), At(7, 30, 1, 0)}
ProbeTimes == {GetTimeAt(t, 0, "local", TRUE) : t \in ProbeInstants}

\* the clock is constructed shortly before the alarm's minute, over a store
\* that works and holds no alarm or the alarm 07:30
ClockStoredItems == {NoItem, StoredAlarm(<<"0", "7", ":", "3", "0">>, TRUE)}

Init == \E t \in StartTimes, item \in ClockStoredItems : Construct(t, item, TRUE)

Next ==
  \/ \E cb \in Callbacks : Start(cb)
  \/ Stop
  \/ \E jitter \in Jitters, dur \in CallbackDurations, throws \in BOOLEAN :
       Tick(jitter, dur, throws)
  \/ \E d \in ElapseSteps : Elapse(d)

Spec == Init /\ [][Next]_vars

-----------------------------------------------------------------------------
(* The running clock while the alarm's API is called between the ticks *)

\* time strings passed to setAlarm while the clock runs
RunAlarmInputs == {<<"0", "7", ":", "3", "0">>, <<"2", "4", ":", "0", "0">>}

InitRun == \E item \in ClockStoredItems : Construct(At(7, 29, 0, 0), item, TRUE)

NextRun ==
  \/ Next
  \/ \E time \in RunAlarmInputs : SetAlarm(time, TRUE)
  \/ ShouldTriggerCall(GetTime)
  \/ ClearAlarm
  \/ \E enabled \in BOOLEAN : ToggleAlarm(enabled)
  \/ \E playing \in BOOLEAN : SetPlaying(playing)

SpecRun == InitRun /\ [][NextRun]_vars

-----------------------------------------------------------------------------
(* The models' API called at instants across the day, no timer running *)

\* every hour of the day at minute 30, the seconds around 07:30:00, and
\* half a minute past 07:30
DayTimes == {At(h, 30, 0, 0) : h \in 0..23} \cup ProbeInstants \cup {At(7, 30, 30, 0)}

\* the wall-clock minute of the instant t as an alarm time string
TimeString(t) ==
  PadZero((t % DayMs) \div HourMs) \o <<":">> \o PadZero((t % HourMs) \div MinuteMs)

InitApi ==
  \E t \in DayTimes, item \in StoredItems, ok \in BOOLEAN : Construct(t, item, ok)

NextApi ==
  \/ \E tz \in Timezones : SetTimezone(tz)
  \/ \E format \in {"12h", "24h"} : SetFormat(format)
  \/ \E time \in AlarmInputs \cup {TimeString(now)}, enabled \in BOOLEAN :
       SetAlarm(time, enabled)
  \/ \E tv \in ProbeTimes \cup {GetTime} : ShouldTriggerCall(tv)
  \/ ClearAlarm
  \/ \E enabled \in BOOLEAN : ToggleAlarm(enabled)
  \/ GetAlarm
  \/ \E playing \in BOOLEAN : SetPlaying(playing)
  \/ GetTimeCall
  \/ GetHandAnglesCall

SpecApi == InitApi /\ [][NextApi]_vars

-----------------------------------------------------------------------------
(* Properties of the running clock (Spec) *)

IsTick == lastCall.op = "tick"

Dispatched(type) == \E i \in 1..Len(emitted) : emitted[i] = type

\* C1: once stop() has been called and start() has not been called again,
\* no tick fires: the onTick callback is not invoked and no 'tick' event is
\* dispatched, also for a timeout that was armed when stop() was called.
NoTickAfterStop ==
  stopped => ~(IsTick /\ (lastTick.called \/ Dispatched("tick")))

\* C2: with one start() and an alarm that is not modified, shouldTrigger is
\* true on at most one tick within one occurrence of the alarm's minute.
NoDoubleFire ==
  (starts <= 1 /\ undisturbed) => fireCount <= 1

\* C3: with one start(), timeouts less than a second late and an alarm that
\* is not modified, the ticks never step over a second on which shouldTrigger
\* would be true: the shown time does not pass HH:MM:00 without a tick on it.
NoMissedFire ==
  (IsTick /\ starts <= 1 /\ undisturbed) => ~lastTick.skipped

\* C8: on a tick observed at system time t, if t - lastSync > 60000 then
\* driftCorrection changes by exactly lastSync + 60000 - t and lastSync
\* becomes t; otherwise the tick leaves both unchanged.
DriftCorrectionStep ==
  [][(lastCall' # lastCall /\ lastCall'.op = "tick") =>
       LET t == lastTick'.at
       IN  IF t - lastSyncTime > 60000
           THEN /\ driftCorrection' - driftCorrection = lastSyncTime + 60000 - t
                /\ lastSyncTime' = t
           ELSE /\ driftCorrection' = driftCorrection
                /\ lastSyncTime' = lastSyncTime]_vars

\* a tick arrived 5000 ms late, 65000 ms after the sync, and shifted
\* driftCorrection by -5000
DriftCorrectionStepWitness ==
  /\ IsTick
  /\ lastTick.late = 5000
  /\ lastTick.at - lastTick.lastSyncBefore = 65000
  /\ driftCorrection - lastTick.driftBefore = -5000
  /\ lastSyncTime = lastTick.at

\* C9: the drift-corrected instant of the TimeValues produced by successive
\* ticks never goes back: the instant a tick hands to its callback is not
\* earlier than the last instant the tick before it produced, and the instant
\* carried by its event is not earlier than the one handed to its callback.
ShownTimeMonotonic ==
  IsTick =>
    /\ prevShown # None => lastTick.cbTime.raw >= prevShown
    /\ lastTick.evTime.raw >= lastTick.cbTime.raw

\* C10: at most one scheduled tick callback is pending at any moment,
\* whatever sequence of start() and stop() calls was made.
AtMostOnePendingTick == Len(timers) <= 1

-----------------------------------------------------------------------------
(* Properties of the API (SpecApi) *)

\* the strings HH:MM with HH in 00..23 and MM in 00..59
HourMinute(h, m) == PadZero(h) \o <<":">> \o PadZero(m)
WellFormedTimes == {HourMinute(h, m) : h \in 0..23, m \in 0..59}

\* the wall clock of the selected zone at the drift-corrected present
WallClock ==
  LET wall == (now + driftCorrection + ZoneOffset(timezone)) % DayMs
  IN  [h |-> wall \div HourMs,
       m |-> (wall % HourMs) \div MinuteMs,
       s |-> (wall % MinuteMs) \div SecondMs]

HasSoundAlarm == activeAlarm # Null /\ activeAlarm.time \in WellFormedTimes

\* C4: getTime().rawHours is the wall-clock hour 0..23 in either display
\* format, so that with a valid enabled alarm HH:MM shouldTrigger(getTime())
\* is true exactly at wall-clock HH:MM:00.
RawHoursIndependentOfFormat ==
  /\ lastCall.op = "getTime" => lastCall.ret.rawHours = WallClock.h
  /\ (/\ lastCall.op = "shouldTrigger"
      /\ lastCall.arg = GetTime
      /\ HasSoundAlarm
      /\ activeAlarm.enabled) =>
       (lastCall.ret <=>
          /\ activeAlarm.time = HourMinute(WallClock.h, WallClock.m)
          /\ WallClock.s = 0)

IsSetAlarm(call) == call.op = "setAlarm"

\* C5: setAlarm(time) with a time HH:MM (00-23:00-59) does not throw, makes
\* the alarm a wholly new one whose time is the input, and emits alarmSet;
\* with any other string it throws, leaves the alarm, the playing flag and
\* the stored value unchanged and emits nothing.
SetAlarmContract ==
  [][(lastCall' # lastCall /\ IsSetAlarm(lastCall')) =>
       IF lastCall'.arg \in WellFormedTimes
       THEN /\ ~lastCall'.threw
            /\ activeAlarm' = [id |-> now, time |-> lastCall'.arg,
                               enabled |-> lastCall'.enabled,
                               createdAt |-> ToISOString(now)]
            /\ emitted' = <<"alarmSet">>
       ELSE /\ lastCall'.threw
            /\ activeAlarm' = activeAlarm
            /\ isPlaying' = isPlaying
            /\ storage' = storage
            /\ emitted' = <<>>]_vars

\* setAlarm("24:00") was rejected over an alarm set before it
SetAlarmContractWitness ==
  /\ IsSetAlarm(lastCall)
  /\ lastCall.arg = <<"2", "4", ":", "0", "0">>
  /\ lastCall.threw
  /\ HasSoundAlarm
  /\ activeAlarm.id = now
  /\ storageOk => storage = JsonStringify(activeAlarm)

\* C6: in every state, from construction on, either no alarm exists or the
\* alarm's time is a well-formed HH:MM.
AlarmTimeWellFormed == activeAlarm = Null \/ activeAlarm.time \in WellFormedTimes

IsShouldTrigger(call) == call.op = "shouldTrigger"

\* the hour and minute a well-formed alarm time names
AlarmHour(a)   == CHOOSE h \in 0..23 : \E m \in 0..59 : a.time = HourMinute(h, m)
AlarmMinute(a) == CHOOSE m \in 0..59 : \E h \in 0..23 : a.time = HourMinute(h, m)

\* C7: shouldTrigger(timeValue) is false with no alarm or a disabled alarm;
\* with an enabled alarm HH:MM it is true iff rawHours = HH, rawMinutes = MM
\* and rawSeconds = 0; it changes no state and emits nothing.
ShouldTriggerContract ==
  [][(lastCall' # lastCall /\ IsShouldTrigger(lastCall')) =>
       /\ (activeAlarm = Null \/ ~activeAlarm.enabled) => ~lastCall'.ret
       /\ (HasSoundAlarm /\ activeAlarm.enabled) =>
            (lastCall'.ret <=>
               /\ lastCall'.arg.rawHours = AlarmHour(activeAlarm)
               /\ lastCall'.arg.rawMinutes = AlarmMinute(activeAlarm)
               /\ lastCall'.arg.rawSeconds = 0)
       /\ activeAlarm' = activeAlarm
       /\ isPlaying' = isPlaying
       /\ storage' = storage
       /\ emitted' = <<>>]_vars

\* after setAlarm("07:30"), shouldTrigger on the TimeValue of 07:30:00
\* returned true
ShouldTriggerContractWitness ==
  /\ IsShouldTrigger(lastCall)
  /\ lastCall.ret
  /\ activeAlarm # Null
  /\ activeAlarm.time = <<"0", "7", ":", "3", "0">>
  /\ activeAlarm.id = now
  /\ lastCall.arg.rawHours = 7
  /\ lastCall.arg.rawMinutes = 30
  /\ lastCall.arg.rawSeconds = 0

\* C11: at every time of day and in both formats the three angles of
\* getHandAngles() lie in [0, 360), and the second angle is rawSeconds * 6.
HandAnglesInRange ==
  lastCall.op = "getHandAngles" =>
    LET angles == lastCall.ret
    IN  /\ 0 <= angles.hour /\ angles.hour < 3600
        /\ 0 <= angles.minute /\ angles.minute < 3600
        /\ 0 <= angles.second /\ angles.second < 3600
        /\ angles.second = lastCall.time.rawSeconds * 60
        /\ angles.secondUlps = 0

-----------------------------------------------------------------------------
(* Properties of the running clock with the alarm's API (SpecRun) *)

\* C12: isPlaying becomes true only through setPlaying(true) and false only
\* through clearAlarm() or setPlaying(false); ticks, shouldTrigger, setAlarm
\* (accepted or rejected) and toggleAlarm leave it unchanged.
PlayingChangesOnlyByCall ==
  [][/\ (~isPlaying /\ isPlaying') =>
          (lastCall'.op = "setPlaying" /\ lastCall'.arg)
     /\ (isPlaying /\ ~isPlaying') =>
          \/ lastCall'.op = "clearAlarm"
          \/ (lastCall'.op = "setPlaying" /\ ~lastCall'.arg)
     /\ lastCall'.op \in {"tick", "shouldTrigger", "setAlarm", "toggleAlarm",
                          "elapse", "start", "stop"} =>
          isPlaying' = isPlaying]_vars

\* a tick on which shouldTrigger held went by while the alarm was playing
PlayingChangesOnlyByCallWitness ==
  /\ isPlaying
  /\ lastCall.op = "tick"
  /\ lastTick.trig

-----------------------------------------------------------------------------
(* Properties of the API over the store (SpecApi) *)

\* C13: over a store whose every call throws, construction yields no alarm
\* and not playing, and setAlarm, toggleAlarm and clearAlarm update the alarm
\* in memory as over a working store, emit their notifications and leave the
\* store alone; only a malformed time makes setAlarm throw.
WorksWithoutStore ==
  /\ ~storageOk => (activeAlarm = Null /\ ~isPlaying)
  /\ [][(~storageOk /\ lastCall' # lastCall) =>
          /\ storage' = storage
          /\ lastCall'.op = "setAlarm" =>
               (lastCall'.threw <=> lastCall'.arg \notin WellFormedTimes)
          /\ (lastCall'.op = "setAlarm" /\ ~lastCall'.threw) =>
               /\ activeAlarm' = [id |-> now, time |-> lastCall'.arg,
                                  enabled |-> lastCall'.enabled,
                                  createdAt |-> ToISOString(now)]
               /\ emitted' = <<"alarmSet">>
          /\ (lastCall'.op = "toggleAlarm" /\ activeAlarm # Null) =>
               /\ activeAlarm' = [activeAlarm EXCEPT !.enabled = lastCall'.arg]
               /\ emitted' = <<"alarmToggled">>
          /\ lastCall'.op = "clearAlarm" =>
               /\ activeAlarm' = Null
               /\ ~isPlaying'
               /\ emitted' = <<"alarmCleared">>]_vars

\* over a failing store an alarm was set and then cleared
WorksWithoutStoreWitness ==
  /\ ~storageOk
  /\ lastCall.op = "clearAlarm"
  /\ activeAlarm = Null
  /\ ncalls >= 2
  /\ emitted = <<"alarmCleared">>
  /\ storage # NoItem

IsAlarmWrite(call) == call.op \in {"setAlarm", "toggleAlarm", "clearAlarm"}

ToggleAlarmContract ==
  [][(lastCall' # lastCall /\ lastCall'.op = "toggleAlarm") =>
       IF activeAlarm = Null
       THEN /\ activeAlarm' = Null
            /\ isPlaying' = isPlaying
            /\ storage' = storage
            /\ emitted' = <<>>
       ELSE /\ activeAlarm'.enabled = lastCall'.arg
            /\ activeAlarm'.id = activeAlarm.id
            /\ activeAlarm'.time = activeAlarm.time
            /\ activeAlarm'.createdAt = activeAlarm.createdAt
            /\ isPlaying' = isPlaying
            /\ storageOk => LoadFromStorage(storage', TRUE) = activeAlarm'
            /\ emitted' = <<"alarmToggled">>]_vars

\* an enabled alarm that is playing was toggled to disabled
ToggleAlarmContractWitness ==
  /\ lastCall.op = "toggleAlarm"
  /\ ~lastCall.arg
  /\ activeAlarm # Null
  /\ ~activeAlarm.enabled
  /\ isPlaying
  /\ emitted = <<"alarmToggled">>

\* C16: after clearAlarm() there is no alarm, isPlaying is false and, over a
\* working store, the key is removed; a second clearAlarm() right after it
\* leaves alarm, playing flag and store unchanged; shouldTrigger is then
\* false for every TimeValue.
ClearAlarmIdempotent ==
  [][(lastCall' # lastCall /\ lastCall'.op = "clearAlarm") =>
       /\ activeAlarm' = Null
       /\ ~isPlaying'
       /\ storageOk => storage' = NoItem
       /\ lastCall.op = "clearAlarm" =>
            /\ activeAlarm' = activeAlarm
            /\ isPlaying' = isPlaying
            /\ storage' = storage
       /\ \A tv \in ProbeTimes \cup {GetTime} :
            ~ShouldTriggerOn(activeAlarm', tv)]_vars

\* clearAlarm() was called twice in a row after another call
ClearAlarmIdempotentWitness ==
  /\ lastCall.op = "clearAlarm"
  /\ lastCall.again
  /\ ncalls = 3
  /\ activeAlarm = Null
  /\ ~isPlaying
  /\ storageOk
  /\ storage = NoItem

\* the hours renderings of the wall-clock hours 0..23, in reading order
Hours12 ==
  <<
    <<"1", "2">>, <<"0", "1">>, <<"0", "2">>, <<"0", "3">>, <<"0", "4">>, <<"0", "5">>,
    <<"0", "6">>, <<"0", "7">>, <<"0", "8">>, <<"0", "9">>, <<"1", "0">>, <<"1", "1">>,
    <<"1", "2">>, <<"0", "1">>, <<"0", "2">>, <<"0", "3">>, <<"0", "4">>, <<"0", "5">>,
    <<"0", "6">>, <<"0", "7">>, <<"0", "8">>, <<"0", "9">>, <<"1", "0">>, <<"1", "1">>
  >>
Hours24 ==
  <<
    <<"0", "0">>, <<"0", "1">>, <<"0", "2">>, <<"0", "3">>, <<"0", "4">>, <<"0", "5">>,
    <<"0", "6">>, <<"0", "7">>, <<"0", "8">>, <<"0", "9">>, <<"1", "0">>, <<"1", "1">>,
    <<"1", "2">>, <<"1", "3">>, <<"1", "4">>, <<"1", "5">>, <<"1", "6">>, <<"1", "7">>,
    <<"1", "8">>, <<"1", "9">>, <<"2", "0">>, <<"2", "1">>, <<"2", "2">>, <<"2", "3">>
  >>

\* C17: in 12h mode the hours string of getTime() is the two-digit value of
\* the wall-clock hour modulo 12 with 0 replaced by 12, and period is PM iff
\* the hour is 12 or more; in 24h mode it is the two-digit hour.
HoursRendering ==
  lastCall.op = "getTime" =>
    IF format24
    THEN lastCall.ret.hours = Hours24[WallClock.h + 1]
    ELSE /\ lastCall.ret.hours = Hours12[WallClock.h + 1]
         /\ lastCall.ret.hours # <<"0", "0">>
         /\ lastCall.ret.period = (IF WallClock.h >= 12 THEN "PM" ELSE "AM")

\* getTime() at 00:30 in 12h mode returned "12" AM
HoursRenderingWitness ==
  /\ lastCall.op = "getTime"
  /\ ~format24
  /\ WallClock.h = 0
  /\ lastCall.ret.hours = <<"1", "2">>
  /\ lastCall.ret.period = "AM"

-----------------------------------------------------------------------------
(* Further properties of the running clock (Spec) *)

\* C18: ticking never stalls: every tick leaves the next timeout armed, due
\* between 1 and 1000 ms later, also when the onTick callback throws.
TickAlwaysRearms ==
  IsTick =>
    /\ timers # <<>>
    /\ timers[Len(timers)] - now \in 1..1000

\* C19: driftCorrection starts at 0, never increases, and every drift
\* correction lowers it strictly, so it is never positive and the instant
\* getTime() is based on is never ahead of the system clock.
DriftNeverForward ==
  /\ [](driftCorrection <= 0 /\ GetTime.raw <= now)
  /\ [][/\ driftCorrection' <= driftCorrection
        /\ lastSyncTime' # lastSyncTime =>
             /\ now' - lastSyncTime > 60000
             /\ driftCorrection' < driftCorrection]_vars

\* a tick 60500 ms after the sync lowered driftCorrection from 0 to -500
DriftNeverForwardWitness ==
  /\ IsTick
  /\ lastTick.synced
  /\ lastTick.driftBefore = 0
  /\ driftCorrection = -500
  /\ GetTime.raw < now

\* C20: within one tick the TimeValue handed to the onTick callback and the
\* TimeValue in the detail of the 'tick' event have the same rawHours,
\* rawMinutes and rawSeconds, whatever time the callback takes.
OneTimeValuePerTick ==
  (IsTick /\ Dispatched("tick")) =>
    /\ lastTick.evTime.rawHours = lastTick.cbTime.rawHours
    /\ lastTick.evTime.rawMinutes = lastTick.cbTime.rawMinutes
    /\ lastTick.evTime.rawSeconds = lastTick.cbTime.rawSeconds

====
